---- MODULE Spec2Model ----
(***************************************************************************)
(* Station signer of tadimax/ev-energy-trade (src/server.js): the handler  *)
(* of POST /sign-stop, the EIP-712 domain and type schema it signs under,  *)
(* and the parts of ethers v5 (ethers.utils.isAddress, Wallet,             *)
(* wallet._signTypedData) the handler calls.                               *)
(*                                                                         *)
(* JSON values are modelled by their shape, not as opaque tokens: a hex    *)
(* string has a prefix ("0x" or none), a body (which bytes its digits      *)
(* spell) and a letter case; a number and a decimal string carry the       *)
(* integer they denote.  keccak256 is modelled as injective on what it     *)
(* hashes, and public-key recovery as returning the signer exactly when    *)
(* the digest is the signed one.                                           *)
(***************************************************************************)
EXTENDS Integers, Sequences, FiniteSets

\* Number of requests the server may be handling at the same time.
NumReqs == 2

Reqs == 1..NumReqs

----------------------------------------------------------------------------
(* JSON / JavaScript values                                                *)

\* A field absent from the JSON body destructures to undefined.
Undefined == [kind |-> "undefined", prefix |-> FALSE, body |-> "", style |-> "none", n |-> 0]
\* A string of hex digits: body names the bytes spelled case-insensitively,
\* style the letter case: "lower", "check" (EIP-55 capitalisation) or
\* "mixed" (mixed case that is not the EIP-55 capitalisation).
HexStr(prefix, body, style) ==
    [kind |-> "hexstr", prefix |-> prefix, body |-> body, style |-> style, n |-> 0]
\* An ICAP ("XE..") spelling of an account.
IcapStr(body) == [kind |-> "icapstr", prefix |-> FALSE, body |-> body, style |-> "upper", n |-> 0]
\* A JSON number, and a string of decimal digits.
Num(n) == [kind |-> "number", prefix |-> FALSE, body |-> "", style |-> "none", n |-> n]
DecStr(n) == [kind |-> "decstr", prefix |-> FALSE, body |-> "", style |-> "none", n |-> n]

\* Bytes spelled by a hex body: accounts are 20 bytes, session ids 32,
\* "01" is the single byte of "0x01".
ByteLen(body) ==
    CASE body \in {"St", "U1", "U2", "K1", "K2"} -> 20
      [] body \in {"S1", "S2"} -> 32
      [] OTHER -> 1

\* String.prototype.toLowerCase
toLowerCase(v) == [v EXCEPT !.style = "lower"]

----------------------------------------------------------------------------
(* ethers v5 as called by the handler                                      *)

\* ethers.utils.getAddress accepts 40 hex digits with or without "0x",
\* all in one case or EIP-55 capitalised, and ICAP strings.
getAddressThrows(v) ==
    ~ \/ v.kind = "hexstr" /\ ByteLen(v.body) = 20 /\ v.style # "mixed"
      \/ v.kind = "icapstr"

\* ... and returns the "0x"-prefixed EIP-55 spelling.
getAddress(v) == HexStr(TRUE, v.body, "check")

\* ethers.utils.isAddress: getAddress did not throw.
isAddress(v) == ~ getAddressThrows(v)

\* ethers.utils.isHexString(value, length)
isHexString(v, len) == v.kind = "hexstr" /\ v.prefix /\ ByteLen(v.body) = len

\* new ethers.Wallet(STATION_PK): the key and the address derived from it.
\* The constructor throws on malformed key material, so a process that
\* serves requests holds a well-formed key.
StationWallet == [privateKey |-> "STATION_PK", address |-> HexStr(TRUE, "St", "check")]

\* The Error objects ethers throws: a code and a message that quotes the
\* offending argument.
EthersError(reason, code, field) ==
    [code |-> code,
     message |-> reason \o " (value=<" \o field \o ">, code=" \o code \o ", version=ethers/5)"]
NoError == [code |-> "", message |-> ""]

\* TypedDataEncoder's encoder of one value of a primitive type:
\*   address  hexZeroPad(getAddress(value), 32)
\*   bytes32  arrayify(value) must be 32 bytes long
\*   uint256  BigNumber.from(value), which must not be negative
\*   string   keccak256 of the text
\* kWhMilli and chainId are drawn from JSON numbers and decimal strings.
EncodeThrows(type, v) ==
    CASE type = "address" -> getAddressThrows(v)
      [] type = "bytes32" -> ~ isHexString(v, 32)
      [] type = "uint256" -> ~ (v.kind \in {"number", "decstr"} /\ v.n >= 0)
      [] OTHER -> FALSE

EncodeError(type, v, field) ==
    CASE type = "address" -> EthersError("invalid address", "INVALID_ARGUMENT", field)
      [] type = "bytes32" ->
            IF v.kind = "hexstr" /\ v.prefix
            THEN EthersError("invalid length for bytes32", "INVALID_ARGUMENT", field)
            ELSE EthersError("invalid arrayify value", "INVALID_ARGUMENT", field)
      [] type = "uint256" ->
            IF v.kind \in {"number", "decstr"}
            THEN EthersError("value out-of-bounds for uint256", "INVALID_ARGUMENT", field)
            ELSE EthersError("invalid BigNumber value", "INVALID_ARGUMENT", field)
      [] OTHER -> NoError

Encode(type, v) ==
    CASE type = "address" -> getAddress(v).body
      [] type = "bytes32" -> v.body
      [] type = "uint256" -> v.n
      [] OTHER -> v

\* The fields of a struct type whose value does not encode, in schema order.
Failing(fields, val) ==
    {i \in 1..Len(fields) : EncodeThrows(fields[i].type, val[fields[i].name])}
Lowest(S) == CHOOSE i \in S : \A j \in S : i <= j

\* TypedDataEncoder.hashStruct: keccak256(typeHash ++ encoded fields).  The
\* type hash commits to the ordered field list, the data to every field.
hashStruct(name, fields, val) ==
    [primaryType |-> name,
     typeHash |-> fields,
     data |-> [f \in {fields[i].name : i \in 1..Len(fields)} |->
                 Encode(fields[CHOOSE i \in 1..Len(fields) : fields[i].name = f].type,
                        val[f])]]

\* TypedDataEncoder.hashDomain: the EIP712Domain struct of the keys the
\* domain object has, in the canonical order.
domainFields ==
    << [name |-> "name", type |-> "string"],
       [name |-> "version", type |-> "string"],
       [name |-> "chainId", type |-> "uint256"],
       [name |-> "verifyingContract", type |-> "address"] >>

\* TypedDataEncoder.hash: keccak256("\x19\x01" ++ hashDomain ++ hashStruct).
TypedDataHash(dom, fields, val) ==
    [domainSeparator |-> hashStruct("EIP712Domain", domainFields, dom),
     structHash |-> hashStruct("SessionStop", fields, val)]

\* TypedDataEncoder.resolveNames: every address-typed value that is not a
\* "0x"-prefixed 20-byte hex string is taken for an ENS name, the domain's
\* verifyingContract first.
EnsNames(dom, fields, val) ==
    (IF dom.verifyingContract.kind # "undefined" /\ ~ isHexString(dom.verifyingContract, 20)
     THEN {0} ELSE {})
    \cup {i \in 1..Len(fields) :
            fields[i].type = "address" /\ ~ isHexString(val[fields[i].name], 20)}

NoHash == [primaryType |-> "", typeHash |-> << >>, data |-> << >>]
NoSignature == [by |-> "", over |-> [domainSeparator |-> NoHash, structHash |-> NoHash]]

\* wallet._signTypedData(domain, types, value): resolve ENS names (the
\* wallet has no provider, so any name throws), hash, sign the digest with
\* the wallet's key.  The result is what the returned promise settles to.
signTypedData(w, dom, fields, val) ==
    LET names == EnsNames(dom, fields, val)
        badDom == Failing(domainFields, dom)
        badVal == Failing(fields, val)
        Thrown(e) == [ok |-> FALSE, signature |-> NoSignature, e |-> e]
    IN  IF names # {}
        THEN Thrown(EthersError("cannot resolve ENS names without a provider",
                                "UNSUPPORTED_OPERATION",
                                IF 0 \in names THEN "verifyingContract"
                                ELSE fields[Lowest(names)].name))
        ELSE IF badDom # {}
        THEN Thrown(EncodeError(domainFields[Lowest(badDom)].type,
                                dom[domainFields[Lowest(badDom)].name],
                                domainFields[Lowest(badDom)].name))
        ELSE IF badVal # {}
        THEN Thrown(EncodeError(fields[Lowest(badVal)].type,
                                val[fields[Lowest(badVal)].name],
                                fields[Lowest(badVal)].name))
        ELSE [ok |-> TRUE,
              signature |-> [by |-> w.privateKey, over |-> TypedDataHash(dom, fields, val)],
              e |-> NoError]

\* ethers.utils.recoverAddress(digest, signature): the signer's address when
\* the signature is over this digest, an unrelated address otherwise.
recoverAddress(digest, signature) ==
    IF signature.by = StationWallet.privateKey /\ signature.over = digest
    THEN StationWallet.address
    ELSE HexStr(TRUE, "unrelated", "check")

----------------------------------------------------------------------------
(* src/server.js                                                           *)

\* A domain whose chainId is fixed at deployment instead of taken from the
\* claim.
domainFixedChain(chainId, contractAddr) ==
    [name |-> "EVEnergy",
     version |-> "1",
     chainId |-> Num(1337),
     verifyingContract |-> contractAddr]

\* function domain(chainId, contractAddr)
domain(chainId, contractAddr) ==
    [name |-> "EVEnergy",
     version |-> "1",
     chainId |-> chainId,
     verifyingContract |-> contractAddr]

\* A schema that leaves kWhMilli out.
typesWithoutKWhMilli ==
    << [name |-> "user", type |-> "address"],
       [name |-> "station", type |-> "address"],
       [name |-> "sessionId", type |-> "bytes32"],
       [name |-> "chainId", type |-> "uint256"],
       [name |-> "contractAddr", type |-> "address"] >>

\* const types = { SessionStop: [...] }
types ==
    << [name |-> "user", type |-> "address"],
       [name |-> "station", type |-> "address"],
       [name |-> "sessionId", type |-> "bytes32"],
       [name |-> "kWhMilli", type |-> "uint256"],
       [name |-> "chainId", type |-> "uint256"],
       [name |-> "contractAddr", type |-> "address"] >>

----------------------------------------------------------------------------
(* Request bodies                                                          *)

\* A well-formed claim for this station, all hex in lower case.
BaseClaim ==
    [user |-> HexStr(TRUE, "U1", "lower"),
     station |-> HexStr(TRUE, "St", "lower"),
     sessionId |-> HexStr(TRUE, "S1", "lower"),
     kWhMilli |-> Num(5000),
     chainId |-> Num(1337),
     contractAddr |-> HexStr(TRUE, "K1", "lower")]

\* Other values a client may send in each field: other spellings of the same
\* value, other values, and malformed or absent ones.
Variants ==
    { <<"user", HexStr(TRUE, "U1", "check")>>,
      <<"user", HexStr(TRUE, "U2", "lower")>>,
      <<"user", HexStr(FALSE, "U1", "lower")>>,
      <<"user", HexStr(TRUE, "U1", "mixed")>>,
      <<"station", HexStr(TRUE, "St", "check")>>,
      <<"station", HexStr(FALSE, "St", "lower")>>,
      <<"station", HexStr(TRUE, "U2", "lower")>>,
      <<"station", HexStr(TRUE, "01", "lower")>>,
      <<"contractAddr", HexStr(TRUE, "K2", "lower")>>,
      <<"contractAddr", IcapStr("K1")>>,
      <<"contractAddr", Undefined>>,
      <<"sessionId", HexStr(TRUE, "S2", "lower")>>,
      <<"sessionId", HexStr(TRUE, "01", "lower")>>,
      <<"kWhMilli", DecStr(5000)>>,
      <<"kWhMilli", Num(6000)>>,
      <<"kWhMilli", Num(-1)>>,
      <<"chainId", Num(1)>> }

\* Claims that depart from the base claim in two fields at once.
VariantPairs ==
    { << <<"user", HexStr(TRUE, "U1", "mixed")>>, <<"station", HexStr(TRUE, "U2", "lower")>> >>,
      << <<"station", HexStr(TRUE, "01", "lower")>>, <<"contractAddr", Undefined>> >>,
      << <<"station", HexStr(TRUE, "U2", "lower")>>, <<"sessionId", HexStr(TRUE, "01", "lower")>> >>,
      << <<"user", HexStr(TRUE, "U1", "check")>>, <<"station", HexStr(TRUE, "St", "check")>> >> }

Bodies ==
    {BaseClaim}
    \cup {[BaseClaim EXCEPT ![p[1]] = p[2]] : p \in Variants}
    \cup {[BaseClaim EXCEPT ![pq[1][1]] = pq[1][2], ![pq[2][1]] = pq[2][2]] : pq \in VariantPairs}

----------------------------------------------------------------------------
(* The handler of POST /sign-stop                                          *)

VARIABLES
    wallet,     \* const wallet: the station's key and address
    alive,      \* the Node process is running
    pc,         \* per request: "idle", "awaiting" (suspended at the await), "done"
    body,       \* per request: req.body
    res,        \* per request: the response written
    sent,       \* per request: responses written (res.json calls)
    signCalls,  \* per request: calls of wallet._signTypedData
    logged,     \* per request: what console.error printed
    overlap     \* per request (history): another handler was suspended at its
                \* await when this one resumed

vars == <<wallet, alive, pc, body, res, sent, signCalls, logged, overlap>>

NoBody == [f \in DOMAIN BaseClaim |-> Undefined]
NoResponse == [status |-> 0, signature |-> NoSignature, signer |-> Undefined, error |-> ""]

\* res.status(code).json({ error: message })
ErrorResponse(code, message) ==
    [status |-> code, signature |-> NoSignature, signer |-> Undefined, error |-> message]

\* res.json({ signature: sig, signer: wallet.address })
SuccessResponse(sig, w) ==
    [status |-> 200, signature |-> sig, signer |-> w.address, error |-> ""]

\* A check that forgets contractAddr.
BadAddressUserStationOnly(b) ==
    ~ isAddress(b.user) \/ ~ isAddress(b.station)

\* !isAddress(user) || !isAddress(station) || !isAddress(contractAddr)
BadAddressInPayload(b) ==
    ~ isAddress(b.user) \/ ~ isAddress(b.station) \/ ~ isAddress(b.contractAddr)

\* A comparison of the normalised addresses instead of the lower-cased texts.
SameStationByAddress(station, w) == getAddress(station) = getAddress(w.address)

\* station.toLowerCase() === wallet.address.toLowerCase()
SameStation(station, w) == toLowerCase(station) = toLowerCase(w.address)

\* A value object kept in a variable of the module, which a request that
\* arrives later overwrites.
valueShared(r) ==
    IF \E q \in Reqs \ {r} : pc[q] = "awaiting"
    THEN body[CHOOSE q \in Reqs \ {r} : pc[q] = "awaiting"]
    ELSE body[r]

\* const value = { user, station, sessionId, kWhMilli, chainId, contractAddr }:
\* a local of the handler's own invocation.
value(r) ==
    [f \in {"user", "station", "sessionId", "kWhMilli", "chainId", "contractAddr"} |-> body[r][f]]

\* try { ... } catch (e): every exception thrown in the handler is caught.
Caught(e) == TRUE

\* A catch block that answers with the client-error status.
CatchResponseClientError(e) ==
    ErrorResponse(400, IF e.message # "" THEN e.message ELSE "sign failed")

\* res.status(500).json({ error: e.message || "sign failed" })
CatchResponse(e) ==
    ErrorResponse(500, IF e.message # "" THEN e.message ELSE "sign failed")

Init ==
    /\ wallet = StationWallet
    /\ alive = TRUE
    /\ pc = [r \in Reqs |-> "idle"]
    /\ body = [r \in Reqs |-> NoBody]
    /\ res = [r \in Reqs |-> NoResponse]
    /\ sent = [r \in Reqs |-> 0]
    /\ signCalls = [r \in Reqs |-> 0]
    /\ logged = [r \in Reqs |-> NoError]
    /\ overlap = [r \in Reqs |-> FALSE]

\* A request arrives (express.json has parsed the body into an object) and
\* the handler runs up to its first suspension: the
\* two checks, each answering 400 and returning, then the call of
\* wallet._signTypedData and the await.
Receive(r, b) ==
    /\ alive
    /\ pc[r] = "idle"
    /\ body' = [body EXCEPT ![r] = b]
    /\ IF BadAddressInPayload(b)
       THEN /\ res' = [res EXCEPT ![r] = ErrorResponse(400, "Bad address in payload")]
            /\ sent' = [sent EXCEPT ![r] = @ + 1]
            /\ pc' = [pc EXCEPT ![r] = "done"]
            /\ UNCHANGED signCalls
       ELSE IF ~ SameStation(b.station, wallet)
       THEN /\ res' = [res EXCEPT ![r] = ErrorResponse(400, "Station address mismatch")]
            /\ sent' = [sent EXCEPT ![r] = @ + 1]
            /\ pc' = [pc EXCEPT ![r] = "done"]
            /\ UNCHANGED signCalls
       ELSE /\ signCalls' = [signCalls EXCEPT ![r] = @ + 1]
            /\ pc' = [pc EXCEPT ![r] = "awaiting"]
            /\ UNCHANGED <<res, sent>>
    /\ UNCHANGED <<wallet, alive, logged, overlap>>

\* A handler that calls the signer a second time when the first call fails.
ResumeRetrying(r) ==
    /\ alive
    /\ pc[r] = "awaiting"
    /\ LET v == value(r)
           out == signTypedData(wallet, domain(v.chainId, v.contractAddr), types, v)
       IN  IF out.ok
           THEN /\ res' = [res EXCEPT ![r] = SuccessResponse(out.signature, wallet)]
                /\ sent' = [sent EXCEPT ![r] = @ + 1]
                /\ pc' = [pc EXCEPT ![r] = "done"]
                /\ UNCHANGED <<logged, signCalls>>
           ELSE IF signCalls[r] < 2
           THEN /\ signCalls' = [signCalls EXCEPT ![r] = @ + 1]
                /\ UNCHANGED <<res, sent, pc, logged>>
           ELSE /\ logged' = [logged EXCEPT ![r] = out.e]
                /\ res' = [res EXCEPT ![r] = CatchResponse(out.e)]
                /\ sent' = [sent EXCEPT ![r] = @ + 1]
                /\ pc' = [pc EXCEPT ![r] = "done"]
                /\ UNCHANGED signCalls
    /\ overlap' = [overlap EXCEPT ![r] = \E q \in Reqs \ {r} : pc[q] = "awaiting"]
    /\ UNCHANGED <<wallet, alive, body>>

\* The promise of wallet._signTypedData settles and the handler resumes:
\* the success response, or the catch block (log, then 500).
Resume(r) ==
    /\ alive
    /\ pc[r] = "awaiting"
    /\ LET v == value(r)
           out == signTypedData(wallet, domain(v.chainId, v.contractAddr), types, v)
       IN  IF out.ok
           THEN /\ res' = [res EXCEPT ![r] = SuccessResponse(out.signature, wallet)]
                /\ sent' = [sent EXCEPT ![r] = @ + 1]
                /\ pc' = [pc EXCEPT ![r] = "done"]
                /\ UNCHANGED <<alive, logged>>
           ELSE IF Caught(out.e)
           THEN /\ logged' = [logged EXCEPT ![r] = out.e]
                /\ res' = [res EXCEPT ![r] = CatchResponse(out.e)]
                /\ sent' = [sent EXCEPT ![r] = @ + 1]
                /\ pc' = [pc EXCEPT ![r] = "done"]
                /\ UNCHANGED alive
           ELSE /\ alive' = FALSE
                /\ UNCHANGED <<res, sent, pc, logged>>
    /\ overlap' = [overlap EXCEPT ![r] = \E q \in Reqs \ {r} : pc[q] = "awaiting"]
    /\ UNCHANGED <<wallet, body, signCalls>>

\* The response has gone out; the handler's invocation and its locals are
\* garbage.
Complete(r) ==
    /\ pc[r] = "done"
    /\ pc' = [pc EXCEPT ![r] = "idle"]
    /\ body' = [body EXCEPT ![r] = NoBody]
    /\ res' = [res EXCEPT ![r] = NoResponse]
    /\ sent' = [sent EXCEPT ![r] = 0]
    /\ signCalls' = [signCalls EXCEPT ![r] = 0]
    /\ logged' = [logged EXCEPT ![r] = NoError]
    /\ overlap' = [overlap EXCEPT ![r] = FALSE]
    /\ UNCHANGED <<wallet, alive>>

Next ==
    \/ \E r \in Reqs, b \in Bodies : Receive(r, b)
    \/ \E r \in Reqs : Resume(r)
    \/ \E r \in Reqs : Complete(r)

Spec == Init /\ [][Next]_vars

\* One body for each path through the handler: signed, rejected by the
\* address check, rejected by the station comparison, and the signer throwing
\* in its name resolution, in its bytes32 encoder and in its uint256 encoder.
PathBodies ==
    { BaseClaim,
      [BaseClaim EXCEPT !.user = HexStr(TRUE, "U1", "mixed")],
      [BaseClaim EXCEPT !.station = HexStr(TRUE, "U2", "lower")],
      [BaseClaim EXCEPT !.user = HexStr(FALSE, "U1", "lower")],
      [BaseClaim EXCEPT !.sessionId = HexStr(TRUE, "01", "lower")],
      [BaseClaim EXCEPT !.kWhMilli = Num(-1)] }

FairNext ==
    \/ \E r \in Reqs, b \in PathBodies : Receive(r, b)
    \/ \E r \in Reqs : Resume(r)
    \/ \E r \in Reqs : Complete(r)

\* Node's event loop runs every continuation whose promise has settled.
FairSpec == Init /\ [][FairNext]_vars /\ \A r \in Reqs : WF_vars(Resume(r))

TypeOK ==
    /\ wallet = StationWallet
    /\ pc \in [Reqs -> {"idle", "awaiting", "done"}]
    /\ \A r \in Reqs : pc[r] # "idle" => body[r] \in Bodies

----------------------------------------------------------------------------
(* Vocabulary of the properties                                            *)

AddressFields == {"user", "station", "contractAddr"}
Done(r) == pc[r] = "done"

\* The text of `station` is not, letter case aside, the text of the
\* service's own address.
StationDiffers(b) ==
    ~ /\ b.station.kind = wallet.address.kind
      /\ b.station.prefix = wallet.address.prefix
      /\ b.station.body = wallet.address.body

\* The claim fields a message text names.
FieldsNamedIn(message) ==
    CASE message = "Bad address in payload" -> {}
      [] message = "Station address mismatch" -> {"station"}
      [] OTHER -> {}

\* The first address field, in the order user, station, contractAddr, that
\* is not a valid address.
FirstBadField(b) ==
    IF ~ isAddress(b.user) THEN "user"
    ELSE IF ~ isAddress(b.station) THEN "station"
    ELSE "contractAddr"

\* What a verifier holding only the claim recomputes: the domain descriptor
\* of the claim's chain and contract, the type schema, the claim's values.
VerifierDomain(chainId, contractAddr) ==
    [name |-> "EVEnergy", version |-> "1",
     chainId |-> chainId, verifyingContract |-> contractAddr]
VerifierDigest(b) ==
    TypedDataHash(VerifierDomain(b.chainId, b.contractAddr), types, b)

\* The values the six fields denote: accounts and session ids as bytes,
\* amounts and chain ids as integers.
Denoted(b) ==
    [user |-> b.user.body, station |-> b.station.body, sessionId |-> b.sessionId.body,
     kWhMilli |-> b.kWhMilli.n, chainId |-> b.chainId.n, contractAddr |-> b.contractAddr.body]

\* The fields in which two bodies differ as sent, and as denoted.
DiffersAsSent(a, b) == {f \in DOMAIN BaseClaim : a[f] # b[f]}
DiffersInValue(a, b) == {f \in DOMAIN BaseClaim : Denoted(a)[f] # Denoted(b)[f]}

----------------------------------------------------------------------------
(* C1 *)

\* C1, as stated: whenever `station` differs from the service's identity the
\* response is the station-mismatch rejection and the signer is not invoked.
C1_Original ==
    \A r \in Reqs :
        (pc[r] # "idle" /\ StationDiffers(body[r])) =>
            /\ Done(r)
            /\ res[r].status = 400
            /\ res[r].error = "Station address mismatch"
            /\ signCalls[r] = 0

\* C1, amended: whenever `station` differs from the service's identity the
\* request is rejected with status 400 and the signer is not invoked; the
\* rejection is the station mismatch when user, station and contractAddr are
\* all valid addresses, and the bad-address rejection otherwise.
C1_MismatchRejected ==
    \A r \in Reqs :
        (pc[r] # "idle" /\ StationDiffers(body[r])) =>
            /\ Done(r)
            /\ res[r].status = 400
            /\ res[r].signature = NoSignature
            /\ signCalls[r] = 0
            /\ res[r].error = IF \A f \in AddressFields : isAddress(body[r][f])
                              THEN "Station address mismatch"
                              ELSE "Bad address in payload"

C1_Witness ==
    \E r \in Reqs :
        /\ Done(r)
        /\ StationDiffers(body[r])
        /\ \A f \in AddressFields : isAddress(body[r][f])
        /\ res[r].error = "Station address mismatch"
        /\ signCalls[r] = 0

(* C2 *)

C3_ValidClaimSigned ==
    \A r \in Reqs :
        ( /\ Done(r)
          /\ \A f \in AddressFields : isAddress(body[r][f])
          /\ ~ StationDiffers(body[r])
          /\ isHexString(body[r].sessionId, 32)
          /\ body[r].kWhMilli.kind \in {"number", "decstr"} /\ body[r].kWhMilli.n >= 0
          /\ body[r].chainId.kind \in {"number", "decstr"} /\ body[r].chainId.n >= 0 ) =>
            /\ res[r].status = 200
            /\ res[r].signer = wallet.address
            /\ recoverAddress(VerifierDigest(body[r]), res[r].signature) = wallet.address

(* C4 *)

\* C4: when the signing step fails (status 500), the failure does not hang
\* on sessionId, kWhMilli or chainId: the same claim with those three fields
\* replaced by a 32-byte id and two unsigned integers fails as well.
C4_OpaqueFieldsNeverFail ==
    \A r \in Reqs :
        (Done(r) /\ res[r].status = 500) =>
            LET b == [body[r] EXCEPT !.sessionId = BaseClaim.sessionId,
                                     !.kWhMilli = BaseClaim.kWhMilli,
                                     !.chainId = BaseClaim.chainId]
            IN  ~ signTypedData(wallet, domain(b.chainId, b.contractAddr), types, b).ok

(* C5 *)

\* C5: every error response has one of two statuses according to its cause:
\* a validation rejection (a malformed address, a station that is not the
\* service's) has status 400 and only such a rejection has it; an exception
\* of the signing step has status 500 and only such an exception has it; an
\* error response never has status 200 nor carries a signature or signer.
C5_StatusByCause ==
    \A r \in Reqs :
        Done(r) =>
            LET rejected == \/ \E f \in AddressFields : ~ isAddress(body[r][f])
                            \/ StationDiffers(body[r])
                threw == logged[r] # NoError
            IN  /\ res[r].status \in {200, 400, 500}
                /\ rejected => res[r].status = 400
                /\ threw => res[r].status = 500
                /\ res[r].status = 400 => rejected /\ ~ threw /\ signCalls[r] = 0
                /\ res[r].status = 500 => threw /\ ~ rejected /\ signCalls[r] = 1
                /\ res[r].status = 200 <=> res[r].error = ""
                /\ res[r].status # 200 =>
                       res[r].signature = NoSignature /\ res[r].signer = Undefined

C5_Witness ==
    \E r, q \in Reqs :
        /\ Done(r) /\ res[r].status = 400 /\ res[r].error # ""
        /\ Done(q) /\ res[q].status = 500 /\ res[q].error # ""

(* C6 *)

\* C6, as stated: of two signed claims that differ in exactly one field of
\* the request, the signature of the one does not recover to the station
\* address against the digest of the other.
C6_Original ==
    \A r, q \in Reqs :
        ( /\ Done(r) /\ res[r].status = 200
          /\ Done(q) /\ res[q].status = 200
          /\ Cardinality(DiffersAsSent(body[r], body[q])) = 1 ) =>
            recoverAddress(VerifierDigest(body[q]), res[r].signature) # wallet.address

\* C6, amended: of two signed claims that differ in the value some field
\* denotes (an address as 20 bytes whatever its letter case, an integer
\* whether sent as a number or as a decimal string), the signature of the
\* one does not recover to the station address against the digest of the
\* other.
C6_ValueSpecific ==
    \A r, q \in Reqs :
        ( /\ Done(r) /\ res[r].status = 200
          /\ Done(q) /\ res[q].status = 200
          /\ DiffersInValue(body[r], body[q]) # {} ) =>
            recoverAddress(VerifierDigest(body[q]), res[r].signature) # wallet.address

C6_Witness ==
    \E r, q \in Reqs :
        /\ Done(r) /\ res[r].status = 200
        /\ Done(q) /\ res[q].status = 200
        /\ DiffersInValue(body[r], body[q]) = {"kWhMilli"}
        /\ recoverAddress(VerifierDigest(body[r]), res[r].signature) = wallet.address
        /\ recoverAddress(VerifierDigest(body[q]), res[r].signature) # wallet.address

(* C7 *)

\* Domains a verifier may try a signature under.
VerifierChainIds == {Num(1), Num(1337)}
VerifierContracts == {HexStr(TRUE, "K1", "check"), HexStr(TRUE, "K2", "check")}

\* C7: every signature returned is over a domain separator of name
\* "EVEnergy", version "1", the claim's chainId and the claim's contractAddr,
\* and it does not recover to the station address under a domain of another
\* chainId or another contract address.
C7_DomainBound ==
    \A r \in Reqs :
        (Done(r) /\ res[r].status = 200) =>
            /\ res[r].signature.over.domainSeparator.data =
                   [name |-> "EVEnergy", version |-> "1",
                    chainId |-> body[r].chainId.n,
                    verifyingContract |-> body[r].contractAddr.body]
            /\ \A c \in VerifierChainIds, k \in VerifierContracts :
                   (c.n # body[r].chainId.n \/ k.body # body[r].contractAddr.body) =>
                       recoverAddress(TypedDataHash(VerifierDomain(c, k), types, body[r]),
                                      res[r].signature) # wallet.address

C7_Witness ==
    \E r \in Reqs :
        /\ Done(r) /\ res[r].status = 200
        /\ body[r].chainId.n = 1337
        /\ recoverAddress(VerifierDigest(body[r]), res[r].signature) = wallet.address
        /\ recoverAddress(TypedDataHash(VerifierDomain(Num(1), body[r].contractAddr),
                                        types, body[r]),
                          res[r].signature) # wallet.address

(* C8 *)

\* C8: the message of an error response is one of the fixed minimal texts
\* and never the detail of an internal failure, which goes to the log only.
C8_MinimalMessage ==
    \A r \in Reqs :
        (Done(r) /\ res[r].status # 200) =>
            /\ res[r].error \in
                   {"Bad address in payload", "Station address mismatch", "sign failed"}
            /\ logged[r] # NoError => res[r].error # logged[r].message

(* C9 *)

\* C9: every request gets exactly one response; each rejection and failure
\* becomes an error response; the signer is called at most once per request;
\* the process keeps running.
C9_OneResponse ==
    /\ [](/\ alive
          /\ \A r \in Reqs :
                /\ signCalls[r] <= 1
                /\ sent[r] <= 1
                /\ pc[r] = "awaiting" => sent[r] = 0
                /\ Done(r) => sent[r] = 1 /\ res[r].status \in {200, 400, 500})
    /\ \A r \in Reqs : (pc[r] = "awaiting") ~> Done(r)

C9_Witness ==
    \E r \in Reqs :
        /\ Done(r) /\ res[r].status = 500
        /\ sent[r] = 1 /\ signCalls[r] = 1 /\ alive

(* C10 *)

\* C10: the station identity never changes, and whatever the interleaving
\* two requests with the same body get the same response, a signature over
\* the request's own claim.
C10_Independent ==
    /\ wallet = StationWallet
    /\ \A r, q \in Reqs :
          (Done(r) /\ Done(q) /\ body[r] = body[q]) => res[r] = res[q]
    /\ \A r \in Reqs :
          (Done(r) /\ res[r].status = 200) =>
              res[r].signature.over = VerifierDigest(body[r])

C10_Witness ==
    \E r, q \in Reqs :
        /\ Done(r) /\ Done(q)
        /\ overlap[r]
        /\ body[r] # body[q]
        /\ res[r].status = 200 /\ res[q].status = 200
        /\ res[r].signature.over = VerifierDigest(body[r])
        /\ res[q].signature.over = VerifierDigest(body[q])

====
